---- MODULE Spec2Model ----
(***************************************************************************)
(* EmpathyEngine front end: the analyzeBtn click handler, analyzeChat and  *)
(* the render pass, in the two copies the repository carries:              *)
(*   "hosted" = src/unnamed/part_000   (status check, try/catch, clearRect)*)
(*   "local"  = src/Frontend/script.js (no status check, no try/catch)     *)
(* Text is a sequence of one-character strings. A score is kept in tenths  *)
(* (0.9 is 9). A missing property of the parsed response is recorded by    *)
(* its absence from the body's "has" set; reading it yields undefined.     *)
(***************************************************************************)
EXTENDS FiniteSets, Integers, Sequences, TLC

VARIABLES
  variant,      \* which copy of the script the page loads
  chartReuse,   \* what the charting library does on a canvas already in use
  inputBox,     \* #inputBox.value
  runs,         \* one entry per click: the handler invocation and its position
  requests,     \* every POST handed to fetch, in order
  alerts,       \* every alert() shown, in order
  hidden,       \* the result sections still carry class "hidden"
  tags,         \* children of #tags
  breakdown,    \* children of #breakdown
  trendBox,     \* #trendBox.innerHTML
  canvases,     \* per canvas: its pixels and the Chart instances bound to it
  lastArrived,  \* the run whose response fetch delivered last (0: none)
  lastRendered  \* the run whose render pass ran last (0: none)

vars == <<variant, chartReuse, inputBox, runs, requests, alerts, hidden,
          tags, breakdown, trendBox, canvases, lastArrived, lastRendered>>

DOM == <<hidden, tags, breakdown, trendBox, canvases>>

-----------------------------------------------------------------------------
\* Bounds

MaxClicks == 2
MaxTextLen == 3

-----------------------------------------------------------------------------
\* Characters and text

LF == "\n"
CR == "\r"
SP == " "
Alphabet == {"a", SP, CR, LF}
\* String.prototype.trim strips white space and line terminators
WhiteSpace == {SP, CR, LF, "\t"}

Undefined == "undefined"

RECURSIVE TextsOfLen(_)
TextsOfLen(n) ==
  IF n = 0 THEN {<<>>}
  ELSE {<<c>> \o t : c \in Alphabet, t \in TextsOfLen(n - 1)}

AllTexts == UNION {TextsOfLen(n) : n \in 0..MaxTextLen}

\* "I am happy\nI am sad" in the small: two lines; a CR and a blank line
SampleTexts == { <<>>, <<"a", LF, "a">>, <<"a", CR, LF, SP>> }

\* rawText.split("\n"): one segment more than there are line feeds
RECURSIVE Split(_)
Split(s) ==
  IF s = <<>> THEN << <<>> >>
  ELSE LET rest == Split(Tail(s))
       IN  IF Head(s) = LF
           THEN << <<>> >> \o rest
           ELSE << <<Head(s)>> \o Head(rest) >> \o Tail(rest)

RECURSIVE TrimStart(_)
TrimStart(m) ==
  IF m = <<>> THEN <<>>
  ELSE IF Head(m) \in WhiteSpace THEN TrimStart(Tail(m)) ELSE m

RECURSIVE TrimEnd(_)
TrimEnd(m) ==
  IF m = <<>> THEN <<>>
  ELSE IF m[Len(m)] \in WhiteSpace THEN TrimEnd(SubSeq(m, 1, Len(m) - 1)) ELSE m

\* m.trim()
Trim(m) == TrimEnd(TrimStart(m))

\* the filter callback of the handler without its trim
KeepNoTrim(m) == m # <<>>

\* m => m.trim() !== ""
Keep(m) == Trim(m) # <<>>

\* rawText.split("\n").filter(m => m.trim() !== "")
Messages(rawText) == SelectSeq(Split(rawText), Keep)

\* JSON.stringify of one character of a string
JsonChar(c) ==
  CASE c = LF -> <<"\\", "n">>
    [] c = CR -> <<"\\", "r">>
    [] c = "\t" -> <<"\\", "t">>
    [] c = "\\" -> <<"\\", "\\">>
    [] OTHER -> <<c>>

RECURSIVE JsonString(_)
JsonString(m) ==
  IF m = <<>> THEN <<>> ELSE JsonChar(Head(m)) \o JsonString(Tail(m))

\* JSON.stringify({ messages })
Stringify(messages) ==
  [messages |-> [i \in 1..Len(messages) |-> JsonString(messages[i])]]

Endpoint(v) ==
  IF v = "hosted"
  THEN "https://empathyengine-vivekvardhan592.hf.space/analyze-chat"
  ELSE "http://127.0.0.1:8000/analyze-chat"

\* the arguments of fetch(...)
Request(v, messages) ==
  [url |-> Endpoint(v), method |-> "POST",
   contentType |-> "application/json", body |-> Stringify(messages)]

-----------------------------------------------------------------------------
\* Emotion color tables

\* part_000: const emotionColors = {...}
EmotionColorsHosted ==
  [admiration |-> "#6A5ACD", amusement |-> "#FFB347", anger |-> "#FF4500",
   annoyance |-> "#FF6347", approval |-> "#4B0082", caring |-> "#DB7093",
   confusion |-> "#8A2BE2", curiosity |-> "#20B2AA", desire |-> "#FF69B4",
   disappointment |-> "#708090", disapproval |-> "#A52A2A", disgust |-> "#556B2F",
   embarrassment |-> "#CD5C5C", excitement |-> "#FFA500", fear |-> "#8B0000",
   gratitude |-> "#32CD32", grief |-> "#2F4F4F", joy |-> "#FFD700",
   love |-> "#FF1493", nervousness |-> "#E9967A", optimism |-> "#00FA9A",
   pride |-> "#4682B4", realization |-> "#7B68EE", relief |-> "#87CEEB",
   remorse |-> "#8B4513", sadness |-> "#1E90FF", surprise |-> "#00CED1",
   neutral |-> "#604b61ff", uncertain |-> "#999999"]

\* Frontend/script.js: the same table without "uncertain"
EmotionColorsLocal ==
  [e \in DOMAIN EmotionColorsHosted \ {"uncertain"} |-> EmotionColorsHosted[e]]

emotionColors(v) == IF v = "hosted" THEN EmotionColorsHosted ELSE EmotionColorsLocal

\* emotionColors[e]
Lookup(v, e) ==
  IF e \in DOMAIN emotionColors(v) THEN emotionColors(v)[e] ELSE Undefined

Fallback == "#888"

\* emotionColors[e] || "#888"
Color(v, e) == IF Lookup(v, e) = Undefined THEN Fallback ELSE Lookup(v, e)

-----------------------------------------------------------------------------
\* Responses of the endpoint

Fields == {"emotional_trend", "emotion_distribution", "timeline"}

Body(parses, has, trend, dist, timeline) ==
  [parses |-> parses, has |-> has, emotional_trend |-> trend,
   emotion_distribution |-> dist, timeline |-> timeline]

\* the example of the specification: joy, sadness
BodyKnown ==
  Body(TRUE, Fields, "improving",
       << [emotion |-> "joy", count |-> 1], [emotion |-> "sadness", count |-> 1] >>,
       << [text |-> "I am happy", emotion |-> "joy", score |-> 9],
          [text |-> "I am sad", emotion |-> "sadness", score |-> 3] >>)

\* labels outside the table ("happy"), and one only the hosted table has
BodyUnknown ==
  Body(TRUE, Fields, "declining",
       << [emotion |-> "happy", count |-> 2], [emotion |-> "uncertain", count |-> 1] >>,
       << [text |-> "ok", emotion |-> "happy", score |-> 5],
          [text |-> "hm", emotion |-> "uncertain", score |-> 2],
          [text |-> "ok", emotion |-> "happy", score |-> 7] >>)

BodyWithout(f) ==
  Body(TRUE, Fields \ {f}, "stable",
       << [emotion |-> "neutral", count |-> 1] >>,
       << [text |-> "fine", emotion |-> "neutral", score |-> 4] >>)

\* an error document such as {"detail": "..."}
BodyError == Body(TRUE, {}, "", <<>>, <<>>)

\* a body that is not JSON (an HTML error page, an empty body)
BodyNotJson == Body(FALSE, {}, "", <<>>, <<>>)

NoResponse == [ok |-> FALSE, status |-> 0, body |-> BodyNotJson]

Responses ==
  {[ok |-> TRUE, status |-> 200, body |-> b] :
      b \in {BodyKnown, BodyUnknown, BodyNotJson} \cup {BodyWithout(f) : f \in Fields}}
  \cup {[ok |-> FALSE, status |-> 500, body |-> BodyError]}

-----------------------------------------------------------------------------
\* The render pass. A step is a function of the page; once a step has thrown
\* the later steps do not run.

Canvases == {"timelineChart", "pieChart", "barChart"}

Page ==
  [hidden |-> hidden, tags |-> tags, breakdown |-> breakdown,
   trendBox |-> trendBox, canvases |-> canvases, threw |-> FALSE]

\* an element whose innerHTML is ""
Empty == [text |-> "", run |-> 0]

\* showSections()
showSections(d) == [d EXCEPT !.hidden = FALSE]

\* clearRect(0, 0, 400, 400): pixels only, the Chart instances stay bound
ClearRect(cv) == [c \in Canvases |-> [cv[c] EXCEPT !.pixels = 0]]

\* a reset that leaves #breakdown alone
ResetKeepBreakdown(v, d) ==
  [d EXCEPT !.tags = <<>>, !.trendBox = Empty,
            !.canvases = IF v = "hosted" THEN ClearRect(@) ELSE @]

\* innerHTML = "" three times; the hosted copy also clears the canvases
Reset(v, d) ==
  [d EXCEPT !.tags = <<>>, !.breakdown = <<>>, !.trendBox = Empty,
            !.canvases = IF v = "hosted" THEN ClearRect(@) ELSE @]

\* trendBox.innerHTML = result.emotional_trend
Trend(result, run, d) ==
  IF d.threw THEN d
  ELSE [d EXCEPT !.trendBox =
          [text |-> IF "emotional_trend" \in result.has
                    THEN result.emotional_trend ELSE Undefined,
           run |-> run]]

\* Object.keys(distribution), Object.values(distribution)
Keys(dist) == [i \in 1..Len(dist) |-> dist[i].emotion]
Values(dist) == [i \in 1..Len(dist) |-> dist[i].count]

Tag(v, entry, run) ==
  [className |-> "tag", borderColor |-> Color(v, entry.emotion),
   color |-> Color(v, entry.emotion),
   textContent |-> <<entry.emotion, " (", entry.count, ")">>, run |-> run]

\* a tag step that takes a missing distribution for an empty one
TagsLenient(v, result, run, d) ==
  IF d.threw \/ "emotion_distribution" \notin result.has THEN d
  ELSE [d EXCEPT !.tags = @ \o [i \in 1..Len(result.emotion_distribution) |->
                                  Tag(v, result.emotion_distribution[i], run)]]

\* Object.keys(distribution).forEach(...): a TypeError on undefined
Tags(v, result, run, d) ==
  IF d.threw THEN d
  ELSE IF "emotion_distribution" \notin result.has THEN [d EXCEPT !.threw = TRUE]
  ELSE [d EXCEPT !.tags = @ \o [i \in 1..Len(result.emotion_distribution) |->
                                  Tag(v, result.emotion_distribution[i], run)]]

MsgItem(v, item, index, run) ==
  [className |-> "msgItem", index |-> index, text |-> item.text,
   emotion |-> item.emotion, background |-> Color(v, item.emotion), run |-> run]

\* result.timeline.forEach(...): a TypeError on undefined
Breakdown(v, result, run, d) ==
  IF d.threw THEN d
  ELSE IF "timeline" \notin result.has THEN [d EXCEPT !.threw = TRUE]
  ELSE [d EXCEPT !.breakdown = @ \o [i \in 1..Len(result.timeline) |->
                                       MsgItem(v, result.timeline[i], i, run)]]

\* new Chart(canvas, config): never destroys what the canvas already carries
NewChart(reuse, d, c, config) ==
  IF d.threw THEN d
  ELSE IF d.canvases[c].charts # <<>> /\ reuse = "throws"
  THEN [d EXCEPT !.threw = TRUE]
  ELSE [d EXCEPT !.canvases[c] =
          [pixels |-> config.run, charts |-> Append(@.charts, config)]]

LineConfig(v, result, run) ==
  [type |-> "line",
   labels |-> [i \in 1..Len(result.timeline) |-> <<"Message", i>>],
   data |-> [i \in 1..Len(result.timeline) |-> result.timeline[i].score],
   colors |-> [i \in 1..Len(result.timeline) |-> Lookup(v, result.timeline[i].emotion)],
   run |-> run]

DistConfig(v, type, result, run) ==
  [type |-> type,
   labels |-> Keys(result.emotion_distribution),
   data |-> Values(result.emotion_distribution),
   colors |-> [i \in 1..Len(result.emotion_distribution) |->
                 Lookup(v, Keys(result.emotion_distribution)[i])],
   run |-> run]

Charts(v, reuse, result, run, d) ==
  IF d.threw THEN d
  ELSE NewChart(reuse,
         NewChart(reuse,
           NewChart(reuse, d, "timelineChart", LineConfig(v, result, run)),
           "pieChart", DistConfig(v, "pie", result, run)),
         "barChart", DistConfig(v, "bar", result, run))

\* the handler from showSections() to the last new Chart(...)
RenderPass(v, reuse, result, run, d) ==
  Charts(v, reuse, result, run,
    Breakdown(v, result, run,
      Tags(v, result, run,
        Trend(result, run,
          Reset(v, showSections(d))))))

-----------------------------------------------------------------------------
\* The click handler and analyzeChat

Settled == {"rendered", "threw", "alerted", "uncaught"}

NewRun(rawText, messages) ==
  [pc |-> "pending", rawText |-> rawText, messages |-> messages,
   response |-> NoResponse, error |-> "none"]

\* a fetch that posts the request a second time
FetchTwice(reqs, v, messages) ==
  Append(Append(reqs, Request(v, messages)), Request(v, messages))

\* fetch(url, {method: "POST", ...}) as analyzeChat issues it
Fetch(reqs, v, messages) == Append(reqs, Request(v, messages))

\* the user edits the text area
SetInput(t) ==
  /\ inputBox # t
  /\ inputBox' = t
  /\ UNCHANGED <<variant, chartReuse, runs, requests, alerts, hidden, tags,
                 breakdown, trendBox, canvases, lastArrived, lastRendered>>

\* click: read the input, build the message list, call analyzeChat up to
\* its await fetch(...)
Click ==
  /\ Len(runs) < MaxClicks
  /\ LET messages == Messages(inputBox)
     IN  /\ requests' = Fetch(requests, variant, messages)
         /\ runs' = Append(runs, NewRun(inputBox, messages))
  /\ UNCHANGED <<variant, chartReuse, inputBox, alerts, hidden, tags,
                 breakdown, trendBox, canvases, lastArrived, lastRendered>>

\* err.message of the three errors analyzeChat can raise
ErrorMessage(kind, status) ==
  CASE kind = "transport" -> <<"Failed to fetch">>
    [] kind = "backend" -> <<"Backend error: ", status>>
    [] kind = "parse" -> <<"Unexpected token">>

\* An error out of `await analyzeChat(messages)`: the hosted copy catches it,
\* alerts and returns; the local copy has no try and the handler's promise
\* rejects unhandled.
Thrown(r, kind, status) ==
  /\ runs' = [runs EXCEPT ![r].pc = IF variant = "hosted" THEN "alerted" ELSE "uncaught",
                          ![r].error = kind]
  /\ alerts' = IF variant = "hosted"
               THEN Append(alerts, <<"Error connecting to backend: ">>
                                     \o ErrorMessage(kind, status))
               ELSE alerts
  /\ UNCHANGED <<hidden, tags, breakdown, trendBox, canvases>>

\* fetch rejects: the request never completed
FetchReject(r) ==
  /\ runs[r].pc = "pending"
  /\ Thrown(r, "transport", 0)
  /\ UNCHANGED <<variant, chartReuse, inputBox, requests, lastArrived, lastRendered>>

\* fetch resolves with a response; the hosted copy throws on !response.ok,
\* otherwise analyzeChat awaits response.json()
FetchResolve(r, resp) ==
  /\ runs[r].pc = "pending"
  /\ lastArrived' = r
  /\ IF variant = "hosted" /\ ~resp.ok
     THEN /\ runs' = [runs EXCEPT ![r].pc = "alerted", ![r].error = "backend",
                                  ![r].response = resp]
          /\ alerts' = Append(alerts, <<"Error connecting to backend: ">>
                                        \o ErrorMessage("backend", resp.status))
     ELSE /\ runs' = [runs EXCEPT ![r].pc = "parsing", ![r].response = resp]
          /\ alerts' = alerts
  /\ UNCHANGED <<variant, chartReuse, inputBox, requests, hidden, tags,
                 breakdown, trendBox, canvases, lastRendered>>

\* response.json() rejects: the body is not JSON
JsonReject(r) ==
  /\ runs[r].pc = "parsing"
  /\ ~runs[r].response.body.parses
  /\ Thrown(r, "parse", 0)
  /\ UNCHANGED <<variant, chartReuse, inputBox, requests, lastArrived, lastRendered>>

\* response.json() resolves: the handler resumes and runs the render pass to
\* its end or to the first exception, which nothing catches
Render(r) ==
  /\ runs[r].pc = "parsing"
  /\ runs[r].response.body.parses
  /\ lastRendered' = r
  /\ LET d == RenderPass(variant, chartReuse, runs[r].response.body, r, Page)
     IN  /\ hidden' = d.hidden
         /\ tags' = d.tags
         /\ breakdown' = d.breakdown
         /\ trendBox' = d.trendBox
         /\ canvases' = d.canvases
         /\ runs' = [runs EXCEPT ![r].pc = IF d.threw THEN "threw" ELSE "rendered",
                                 ![r].error = IF d.threw THEN "render" ELSE "none"]
  /\ UNCHANGED <<variant, chartReuse, inputBox, requests, alerts, lastArrived>>

-----------------------------------------------------------------------------
\* Specifications

InitPage ==
  /\ runs = <<>>
  /\ requests = <<>>
  /\ alerts = <<>>
  /\ hidden = TRUE
  /\ tags = <<>>
  /\ breakdown = <<>>
  /\ trendBox = Empty
  /\ canvases = [c \in Canvases |-> [pixels |-> 0, charts |-> <<>>]]
  /\ lastArrived = 0
  /\ lastRendered = 0

Init ==
  /\ variant \in {"hosted", "local"}
  /\ chartReuse \in {"throws", "stacks"}
  /\ inputBox \in SampleTexts
  /\ InitPage

Next ==
  \/ Click
  \/ \E r \in 1..Len(runs) : FetchReject(r)
  \/ \E r \in 1..Len(runs) : \E resp \in Responses : FetchResolve(r, resp)
  \/ \E r \in 1..Len(runs) : JsonReject(r)
  \/ \E r \in 1..Len(runs) : Render(r)

Spec == Init /\ [][Next]_vars

\* the message list over every text up to MaxTextLen
InitInput ==
  /\ variant \in {"hosted", "local"}
  /\ chartReuse \in {"throws", "stacks"}
  /\ inputBox \in AllTexts
  /\ InitPage

NextInput ==
  \/ \E t \in SampleTexts : SetInput(t)
  \/ Click

SpecInput == InitInput /\ [][NextInput]_vars

-----------------------------------------------------------------------------
\* Vocabulary of the properties

RunIds == 1..Len(runs)

\* the run has entered the render pass
Rendered(r) == runs[r].pc \in {"rendered", "threw"}

\* the run ended with an error out of analyzeChat
Failed(r) == runs[r].error \in {"transport", "backend", "parse"}

ResultOf(r) == runs[r].response.body

\* what a JSON parser reads back from a string literal's characters
JsonUnescape(c) ==
  CASE c = "n" -> LF
    [] c = "r" -> CR
    [] c = "t" -> "\t"
    [] OTHER -> c

RECURSIVE JsonParseString(_)
JsonParseString(s) ==
  IF s = <<>> THEN <<>>
  ELSE IF Head(s) = "\\"
       THEN <<JsonUnescape(s[2])>> \o JsonParseString(SubSeq(s, 3, Len(s)))
       ELSE <<Head(s)>> \o JsonParseString(Tail(s))

ParsedMessages(body) ==
  [i \in 1..Len(body.messages) |-> JsonParseString(body.messages[i])]

\* the lines of a text, by the positions of its line feeds
Breaks(s) == {0, Len(s) + 1} \cup {i \in 1..Len(s) : s[i] = LF}

NthBreak(s, k) ==
  CHOOSE b \in Breaks(s) : Cardinality({x \in Breaks(s) : x < b}) = k - 1

LinesOf(s) ==
  [k \in 1..(Cardinality(Breaks(s)) - 1) |->
     SubSeq(s, NthBreak(s, k) + 1, NthBreak(s, k + 1) - 1)]

IsBlank(m) == \A i \in 1..Len(m) : m[i] \in {SP, CR, "\t"}

NotBlank(m) == ~IsBlank(m)

NonBlankLines(s) == SelectSeq(LinesOf(s), NotBlank)

\* every visible tag, breakdown item and trend text was written by run r
VisibleFrom(r) ==
  /\ \A i \in 1..Len(tags) : tags[i].run = r
  /\ \A i \in 1..Len(breakdown) : breakdown[i].run = r
  /\ trendBox # Empty => trendBox.run = r

ExpectedTags(r) ==
  [i \in 1..Len(ResultOf(r).emotion_distribution) |->
     Tag(variant, ResultOf(r).emotion_distribution[i], r)]

ExpectedBreakdown(r) ==
  [i \in 1..Len(ResultOf(r).timeline) |->
     MsgItem(variant, ResultOf(r).timeline[i], i, r)]

ExpectedTrend(r) ==
  [text |-> IF "emotional_trend" \in ResultOf(r).has
            THEN ResultOf(r).emotional_trend ELSE Undefined,
   run |-> r]

ChartsOf(r) ==
  {c \in Canvases : \E k \in 1..Len(canvases[c].charts) : canvases[c].charts[k].run = r}

-----------------------------------------------------------------------------
\* C1: when fetch rejects, the handler leaves the tag container, the
\* breakdown container, the trend box, the canvases and the hidden sections
\* exactly as they were, and shows the user a failure notice.
C1_TransportFailureNotice ==
  [][\A r \in RunIds :
       (runs[r].pc = "pending" /\ runs'[r].error = "transport")
       => (DOM' = DOM /\ Len(alerts') = Len(alerts) + 1)]_vars

\* C2: two render passes in succession over the same complete result leave
\* what one pass leaves: one tag per key, one item per timeline entry, the
\* trend text alone, and exactly one chart on each canvas, all of the second
\* pass.
C2_RenderTwiceIdempotent ==
  \A r1, r2 \in RunIds :
    ( /\ r1 # r2
      /\ Rendered(r1) /\ Rendered(r2)
      /\ lastRendered = r2
      /\ \A r3 \in RunIds \ {r1, r2} : ~Rendered(r3)
      /\ ResultOf(r1) = ResultOf(r2)
      /\ ResultOf(r2).has = Fields )
    => /\ tags = ExpectedTags(r2)
       /\ breakdown = ExpectedBreakdown(r2)
       /\ trendBox = ExpectedTrend(r2)
       /\ \A c \in Canvases :
            /\ Len(canvases[c].charts) = 1
            /\ canvases[c].charts[1].run = r2

\* C3: the messages of every request payload, read back from the JSON, are
\* the lines of the input text (split at line feeds) that are not blank, in
\* order and unmodified; a line of white space only counts as blank, a
\* carriage return before the line feed stays on its line; the empty input
\* gives the empty list.
C3_MessageList ==
  \A r \in RunIds :
    /\ ParsedMessages(requests[r].body) = NonBlankLines(runs[r].rawText)
    /\ runs[r].messages = NonBlankLines(runs[r].rawText)
    /\ runs[r].rawText = <<>> => requests[r].body.messages = <<>>

C3_Witness ==
  \E r \in RunIds :
    /\ runs[r].rawText = <<"a", CR, LF, SP>>
    /\ ParsedMessages(requests[r].body) = << <<"a", CR>> >>

\* C4: a label the color table does not have is drawn in "#888" on the tag,
\* the breakdown label, the line-chart point, the pie slice and the bar, and
\* no render pass over a complete result throws on a canvas not yet in use.
C4_FallbackEverywhere ==
  /\ \A i \in 1..Len(tags) :
       Lookup(variant, tags[i].textContent[1]) = Undefined
       => tags[i].color = Fallback /\ tags[i].borderColor = Fallback
  /\ \A i \in 1..Len(breakdown) :
       Lookup(variant, breakdown[i].emotion) = Undefined
       => breakdown[i].background = Fallback
  /\ \A c \in Canvases : \A k \in 1..Len(canvases[c].charts) :
       LET chart == canvases[c].charts[k]
           emotionAt(i) == IF chart.type = "line"
                           THEN ResultOf(chart.run).timeline[i].emotion
                           ELSE chart.labels[i]
       IN  \A i \in 1..Len(chart.colors) :
             Lookup(variant, emotionAt(i)) = Undefined => chart.colors[i] = Fallback
  /\ \A r \in RunIds :
       (runs[r].pc = "threw" /\ ResultOf(r).has = Fields)
       => \E r0 \in RunIds \ {r} : Rendered(r0)

\* C5: at most one run is between its click and its last render step.
C5_OnePipelineRun ==
  Cardinality({r \in RunIds : runs[r].pc \in {"pending", "parsing"}}) <= 1

\* C6: a response with a non-success status ends the run in a backend error
\* that carries the status: the body is not parsed, the user is alerted with
\* a message that names the backend error, and no render step runs.
C6_BackendErrorOnStatus ==
  \A r \in RunIds :
    (runs[r].response # NoResponse /\ ~runs[r].response.ok)
    => /\ runs[r].pc = "alerted"
       /\ runs[r].error = "backend"
       /\ \E i \in 1..Len(alerts) :
            alerts[i] = <<"Error connecting to backend: ", "Backend error: ",
                          runs[r].response.status>>

\* C7: a click issues exactly one POST, built from the input alone; no other
\* step issues a request; a run that has ended never moves again; a run that
\* ends in an error leaves the page, the input and the requests as they were.
C7_OneRequestPerTrigger ==
  [][ /\ Len(requests') = Len(runs')
      /\ Len(runs') = Len(runs) => requests' = requests
      /\ Len(runs') # Len(runs) =>
           /\ Len(runs') = Len(runs) + 1
           /\ SubSeq(requests', 1, Len(requests)) = requests
           /\ requests'[Len(runs')].method = "POST"
           /\ ParsedMessages(requests'[Len(runs')].body) = NonBlankLines(inputBox)
           /\ runs'[Len(runs')].pc = "pending"
           /\ SubSeq(runs', 1, Len(runs)) = runs
      /\ \A r \in RunIds :
           /\ runs[r].pc \in Settled => runs'[r] = runs[r]
           /\ (runs[r].error = "none" /\ runs'[r].error \in {"transport", "backend", "parse"})
              => (DOM' = DOM /\ inputBox' = inputBox /\ runs'[r].pc \in Settled)
    ]_vars

C7_Witness ==
  \E r1, r2 \in RunIds :
    /\ r1 < r2
    /\ Failed(r1)
    /\ runs[r2].pc = "rendered"
    /\ Len(requests) = Len(runs)

\* C8 as stated: a render pass over a response that lacks a field ends
\* without an exception.
C8_MissingFieldCompletes ==
  \A r \in RunIds :
    (Rendered(r) /\ ResultOf(r).has # Fields) => runs[r].pc = "rendered"

\* C8 as amended: after a render pass over a response that lacks a field,
\* the sections are shown and the trend box holds the trend of the response
\* or the text "undefined"; when emotion_distribution or timeline is missing
\* the pass has thrown at the first missing one, leaving the tags drawn only
\* if the distribution is there, no breakdown item and no chart of this run;
\* when only emotional_trend is missing, tags and breakdown are drawn in full.
C8_MissingFieldThrows ==
  \A r \in RunIds :
    (Rendered(r) /\ lastRendered = r /\ ResultOf(r).has # Fields)
    => /\ ~hidden
       /\ trendBox = ExpectedTrend(r)
       /\ "emotion_distribution" \notin ResultOf(r).has =>
            /\ runs[r].pc = "threw"
            /\ tags = <<>> /\ breakdown = <<>> /\ ChartsOf(r) = {}
       /\ ("emotion_distribution" \in ResultOf(r).has /\ "timeline" \notin ResultOf(r).has) =>
            /\ runs[r].pc = "threw"
            /\ tags = ExpectedTags(r) /\ breakdown = <<>> /\ ChartsOf(r) = {}
       /\ ResultOf(r).has = Fields \ {"emotional_trend"} =>
            /\ trendBox.text = Undefined
            /\ tags = ExpectedTags(r) /\ breakdown = ExpectedBreakdown(r)

C8_Witness ==
  \E r \in RunIds :
    /\ lastRendered = r
    /\ "timeline" \notin ResultOf(r).has
    /\ runs[r].pc = "threw"
    /\ tags # <<>>
    /\ breakdown = <<>>

\* C9: after a render pass over a complete result, the tags, the chart on
\* the pie canvas and the chart on the bar canvas list the keys of the
\* distribution in the same order, one each per key, and at every position
\* carry that key, its count and its resolved color.
C9_SameOrderEverywhere ==
  \A r \in RunIds :
    (Rendered(r) /\ lastRendered = r /\ ResultOf(r).has = Fields)
    => LET dist == ResultOf(r).emotion_distribution
       IN  /\ Len(tags) = Len(dist)
           /\ \A c \in {"pieChart", "barChart"} :
                /\ Len(canvases[c].charts) = 1
                /\ Len(canvases[c].charts[1].labels) = Len(dist)
           /\ \A i \in 1..Len(dist) :
                /\ tags[i].textContent = <<dist[i].emotion, " (", dist[i].count, ")">>
                /\ tags[i].color = Color(variant, dist[i].emotion)
                /\ \A c \in {"pieChart", "barChart"} :
                     /\ canvases[c].charts[1].labels[i] = dist[i].emotion
                     /\ canvases[c].charts[1].data[i] = dist[i].count
                     /\ canvases[c].charts[1].colors[i] = tags[i].color

\* some run wrote everything that is visible
SingleSource == \E r \in 0..Len(runs) : VisibleFrom(r)

AllSettled == \A r \in RunIds : runs[r].pc \in Settled

\* C10 as stated: what is visible never mixes two responses, and once every
\* request has settled it comes from the response that arrived last.
C10_LastArrivedWins ==
  /\ SingleSource
  /\ (AllSettled /\ lastArrived # 0) => VisibleFrom(lastArrived)

\* C10 as amended: what is visible never mixes two responses, and at every
\* moment it comes from the run whose render pass ran last; before any render
\* pass nothing is visible.
C10_LastRenderedWins ==
  /\ SingleSource
  /\ VisibleFrom(lastRendered)
  /\ lastRendered = 0 => (tags = <<>> /\ breakdown = <<>> /\ trendBox = Empty)
  /\ lastRendered # 0 => (Rendered(lastRendered) /\ trendBox.run = lastRendered)

\* the earlier click rendered last, after the later click's response arrived
C10_Witness ==
  /\ AllSettled
  /\ Len(runs) >= 2
  /\ runs[1].pc = "rendered" /\ runs[2].pc \in {"rendered", "threw"}
  /\ lastRendered = 1
  /\ lastArrived = 2
  /\ tags # <<>>

====
